---------------------------- MODULE Spec2Model ----------------------------
(***************************************************************************)
(* Model of the ntt test runner (cmd/ntt run.go): the aggregation loop     *)
(* nttRun with its run ledger, error counter, max-fail circuit breaker and *)
(* artifact persistence, fed by the bounded worker pool of run.Runner.     *)
(***************************************************************************)
EXTENDS Integers, Sequences, FiniteSets, TLC

(* ---------------------------------------------------------------------- *)
(* Bounds of the model                                                     *)
(* ---------------------------------------------------------------------- *)
MaxJobs == 3
WorkersBound == 2
MaxFailBound == 2
ResultsCap == 2
MaxTime == 2
MaxIds == 2
MaxFiles == 2
MaxSignals == 5
MaxEvents == 2
MaxCallers == 3
CpuBound == 2
DiscDepth == 2

JobIds == 1..MaxJobs

(* runner.NewJob(id, suite): the job of an identifier, with its own job id. *)
NewJob(name, n) == [ID |-> n, Name |-> name]

(* The zero time.Time, as tested by begin.IsZero(). *)
ZeroTime == 0

VARIABLES
    MaxWorkers,   \* flag --jobs
    MaxFail,      \* flag --max-fail
    ctxDone,      \* the context of runTests is cancelled (first interrupt)
    jobs,         \* the job channel returned by GenerateJobs (its buffer)
    jobsClosed,   \* the job channel is closed
    nextJob,      \* number of jobs GenerateJobs has created so far
    active,       \* run.Runner: jobs started and not yet finished (Jobs())
    ressults,     \* the result channel returned by runner.Run (its buffer)
    resClosed,    \* the result channel is closed
    pc,           \* nttRun: "start", "loop" or "done"
    exitBy,       \* nttRun: how the loop was left: "none", "closed", "maxfail"
    cancelled,    \* nttRun: cancel() of its own context was called
    received,     \* history: the events received from ressults, in order
    Runs,         \* the ledger
    errorCount,   \* the error counter
    stamps,       \* begin timestamps by job id
    ret,          \* the value nttRun returned
    artifact,     \* the file at cache.Lookup("test_results.json")
    flushErr,     \* FlushTestResults returned an error
    now,          \* the wall clock, time.Now()
    ids,          \* GenerateIDs: the explicit identifier list
    files,        \* GenerateIDs: the source files, each as ParseFile's definitions
    policy,       \* GenerateIDs: K3_40_RUN_POLICY, a string of characters
    basket,       \* GenerateIDs: the basket
    gpc,          \* identifier goroutine: "init", "ids", "file", "defs", "send", "closed"
    gkind,        \* the generator GenerateIDs selected: "ids", "controls", "tests"
    gfile,        \* index of the file being scanned
    gdef,         \* index of the next identifier or definition
    emitted,      \* history: the identifiers sent on the id channel, in order
    parsed,       \* history: the files handed to ttcn3.ParseFile, in order
    matchCalls,   \* history: number of calls of Basket.Match
    jpc,          \* job goroutine of GenerateJobs: "recv", "send", "closed"
    jhold,        \* the job the job goroutine is sending
    consuming,    \* the consumer of the job channel still receives
    consumed,     \* history: the jobs the consumer received, in order
    ferr,         \* per source file: how its parse ends: "ok", "read", "syntax"
    format,       \* Format(): "quiet", "plain", "json" or "text"
    out,          \* the lines the last step of the loop printed
    tickPending,  \* ticker.C holds a tick
    sigpc,        \* signal goroutine of runTests: "select", "second", "exited"
    sigchan,      \* number of signals buffered in signalChan (capacity 1)
    notifying,    \* signal.Notify is in effect (until signal.Stop)
    sigSent,      \* history: number of interrupts sent to the process
    mainpc,       \* runTests: "running", "returned"
    exitStatus,   \* how the process ended: "none", "ok", "failed", "forced", "killed"
    env,          \* os.LookupEnv("SCT_K3_SERVER"): set or not, and the value
    backend,      \* runTests: "undecided", "k3s" or "ntt"
    k3sIds,       \* k3sJobs: the names collected from the job channel
    k3sStdin,     \* the standard input handed to the delegate
    k3sArgs,      \* the arguments of the delegate
    NumCPU,       \* runtime.NumCPU(): the capacity of parseLimit
    ppc,          \* per caller of ParseFile: where it is
    parseLimit,   \* number of permits held in parseLimit
    dfs,          \* Discover: the directories walked and what they hold
    dpc,          \* Discover: "idle", "walk", "dedup" or "done"
    dlevel,       \* Discover: the next directory of the walk
    dlist,        \* Discover: list
    di,           \* Discover: the next element of list to look at
    dvisited,     \* Discover: visited
    dresult       \* Discover: result

aggVars == <<MaxWorkers, MaxFail, jobs, jobsClosed, nextJob, active, ressults,
             resClosed, pc, exitBy, cancelled, received, Runs, errorCount,
             stamps, ret, artifact, flushErr, now, format, out, tickPending>>

genVars == <<ids, files, policy, basket, gpc, gkind, gfile, gdef, emitted, parsed,
             matchCalls, jpc, jhold, consuming, consumed, ferr>>

sigVars == <<sigpc, sigchan, notifying, sigSent, mainpc, exitStatus>>

k3sVars == <<env, backend, k3sIds, k3sStdin, k3sArgs>>

parseVars == <<NumCPU, ppc, parseLimit>>

(* What neither the aggregation loop nor the generators write. *)
discVars == <<dfs, dpc, dlevel, dlist, di, dvisited, dresult>>

extVars == <<sigVars, k3sVars, parseVars, discVars, discVars>>

(* What the aggregation side reads and writes beyond the job channel. *)
runVars == <<MaxFail, active, ressults, resClosed, pc, exitBy, cancelled, received,
             Runs, errorCount, stamps, ret, artifact, flushErr, now, format, out,
             tickPending>>

vars == <<aggVars, genVars, ctxDone, extVars>>

(* ---------------------------------------------------------------------- *)
(* Events (package tests): Start, Stop with a verdict, Error with a cause  *)
(* ---------------------------------------------------------------------- *)
(* The verdicts the jobs of a run conclude with. *)
Verdicts == {"pass", "fail"}

StartEvent(j, t) == [type |-> "start", job |-> j, verdict |-> "", cause |-> "", time |-> t]
StopEvent(j, v, t) == [type |-> "stop", job |-> j, verdict |-> v, cause |-> "", time |-> t]
ErrorEvent(j, t) == [type |-> "error", job |-> j, verdict |-> "", cause |-> "cause", time |-> t]

TerminalEvents(j, t) == {StopEvent(j, v, t) : v \in Verdicts} \cup {ErrorEvent(j, t)}

(* tests.IsPass: a Start event and a Stop with verdict "pass" pass. *)
IsPass(ev) ==
    \/ ev.type = "start"
    \/ ev.type = "stop" /\ ev.verdict = "pass"

(* ---------------------------------------------------------------------- *)
(* nttRun: the processing of one result                                    *)
(* ---------------------------------------------------------------------- *)

(* Faulty variant: every result counts as an error. *)
NextErrorCount_CountsAll(ec, ev) == ec + 1

(* Track errors for early exit. *)
NextErrorCount(ec, ev) == IF ~IsPass(ev) THEN ec + 1 ELSE ec

(* Faulty variant: an empty verdict is recorded as it is. *)
DisplayVerdict_KeepsEmpty(ev) ==
    CASE ev.type = "error" -> "fatal"
      [] ev.type = "stop" -> ev.verdict
      [] OTHER -> "none"

DisplayVerdict(ev) ==
    CASE ev.type = "error" -> "fatal"
      [] ev.type = "stop" /\ ev.verdict # "" -> ev.verdict
      [] OTHER -> "none"

(* begin, end := stamps[res.ID()], res.Event.Time(); a zero begin is the end. *)
BeginOf(st, ev) == IF st[ev.job.ID] = ZeroTime THEN ev.time ELSE st[ev.job.ID]

NextStamps(st, ev, t) ==
    IF st[ev.job.ID] = ZeroTime THEN [st EXCEPT ![ev.job.ID] = t] ELSE st

NewRun(ev, begin) ==
    [Name       |-> ev.job.Name,
     Verdict    |-> DisplayVerdict(ev),
     Begin      |-> begin,
     End        |-> ev.time,
     WorkingDir |-> "dir",
     Reason     |-> IF ev.type = "error" THEN ev.cause ELSE ""]

(* Faulty variant: the newest entry is put in front of the ledger. *)
NextRuns_Prepends(runs, ev, begin) ==
    IF ev.type = "start" THEN runs ELSE <<NewRun(ev, begin)>> \o runs

(* Faulty variant: a Start event is appended to the ledger too. *)
NextRuns_AppendsStart(runs, ev, begin) == Append(runs, NewRun(ev, begin))

NextRuns(runs, ev, begin) ==
    IF ev.type # "start" THEN Append(runs, NewRun(ev, begin)) ELSE runs

(* Faulty variant: the breaker fires one failure late. *)
BreakerFires_Late(mf, ec) == mf > 0 /\ ec > mf

BreakerFires(mf, ec) == mf > 0 /\ ec >= mf

(* Faulty variant: the loop also ends when the context is done. *)
LoopEnds_OnCancel(ok, done) == ~ok \/ done

(* The select of the loop leaves only when the result channel is closed. *)
LoopEnds(ok, done) == ~ok

NilError == [kind |-> "nil", n |-> 0]
Pending == [kind |-> "pending", n |-> 0]

(* Faulty variant: the run is reported as passed whatever the counter. *)
ReturnValue_AlwaysNil(ec) == NilError

ReturnValue(ec) ==
    IF ec > 0 THEN [kind |-> "ErrCommandFailed", n |-> ec] ELSE NilError

(* ---------------------------------------------------------------------- *)
(* Run persistence                                                         *)
(* ---------------------------------------------------------------------- *)
EmptyDB == [Version |-> "", Sessions |-> <<>>]
NoFile == [kind |-> "none", db |-> EmptyDB]
PartialFile == [kind |-> "partial", db |-> EmptyDB]

StaleRun == [Name |-> "m1.A", Verdict |-> "pass", Begin |-> ZeroTime, End |-> ZeroTime,
             WorkingDir |-> "dir", Reason |-> ""]

DBOf(runs, mw) ==
    [Version  |-> "1",
     Sessions |-> << [Id |-> "1", MaxJobs |-> mw, ExpectedVerdict |-> "pass",
                      Runs |-> runs] >>]

StaleFile == [kind |-> "db", db |-> DBOf(<<StaleRun, StaleRun>>, 1)]

(* os.Remove(cache.Lookup("test_results.json")) *)
Remove(file) == NoFile

(* Faulty variant: the stale artifact is left in place. *)
RemoveStale_Keeps(file) == file

RemoveStale(file) == Remove(file)

(* ioutil.WriteFile: the outcomes are success, a failed open (the file is *)
(* left as it was) and a failed write (the file is truncated).            *)
WriteOutcomes == {"ok", "open", "write"}

WriteFile(file, db, w) ==
    CASE w = "ok" -> [kind |-> "db", db |-> db]
      [] w = "open" -> file
      [] OTHER -> PartialFile

FlushTestResults(file, runs, mw, w) == WriteFile(file, DBOf(runs, mw), w)

(* ---------------------------------------------------------------------- *)
(* The job channel, as GenerateJobs feeds it. Once nttRun has returned,    *)
(* runTests returns and the process ends: no goroutine runs any further.   *)
(* ---------------------------------------------------------------------- *)

(* The identifier of the n-th job of a run: the same name may be run twice. *)
JobName(n) == IF n % 2 = 1 THEN "m1.A" ELSE "m1.B"

(* out <- runner.NewJob(id, suite): the channel buffers MaxWorkers jobs. *)
GenJob ==
    /\ pc # "done"
    /\ ~jobsClosed
    /\ nextJob < MaxJobs
    /\ Len(jobs) < MaxWorkers
    /\ nextJob' = nextJob + 1
    /\ jobs' = Append(jobs, NewJob(JobName(nextJob + 1), nextJob + 1))
    /\ UNCHANGED <<MaxWorkers, MaxFail, jobsClosed, active, ressults, resClosed,
                   pc, exitBy, cancelled, received, Runs, errorCount, stamps,
                   ret, artifact, flushErr, now, ctxDone, genVars, extVars, format, out, tickPending>>

(* defer close(out) *)
GenDone ==
    /\ pc # "done"
    /\ ~jobsClosed
    /\ jobsClosed' = TRUE
    /\ UNCHANGED <<MaxWorkers, MaxFail, jobs, nextJob, active, ressults, resClosed,
                   pc, exitBy, cancelled, received, Runs, errorCount, stamps,
                   ret, artifact, flushErr, now, ctxDone, genVars, extVars, format, out, tickPending>>

(* ---------------------------------------------------------------------- *)
(* run.Runner: a pool of at most MaxWorkers concurrently running jobs      *)
(* ---------------------------------------------------------------------- *)

(* The context handed to runner.Run is done. *)
RunCtxDone == ctxDone \/ cancelled

(* Faulty variant: the runner is made one worker larger than MaxWorkers. *)
RunnerSize_OneMore(mw) == mw + 1

(* run.NewRunner(MaxWorkers): the size of the worker pool. *)
RunnerSize(mw) == mw

(* The pool has a worker that is not running a job. *)
FreeSlot(act, size) == Cardinality(act) < size

(* A worker takes the next job and emits its Start event. *)
WorkerStart ==
    /\ pc = "loop"
    /\ ~RunCtxDone
    /\ jobs # <<>>
    /\ FreeSlot(active, RunnerSize(MaxWorkers))
    /\ Len(ressults) < ResultsCap
    /\ jobs' = Tail(jobs)
    /\ active' = active \cup {Head(jobs)}
    /\ ressults' = Append(ressults, StartEvent(Head(jobs), now))
    /\ UNCHANGED <<MaxWorkers, MaxFail, jobsClosed, nextJob, resClosed,
                   pc, exitBy, cancelled, received, Runs, errorCount, stamps,
                   ret, artifact, flushErr, now, ctxDone, genVars, extVars, format, out, tickPending>>

(* A running job concludes and emits its one terminal event. *)
WorkerFinish ==
    /\ pc = "loop"
    /\ \E j \in active :
      \E ev \in TerminalEvents(j, now) :
        /\ Len(ressults) < ResultsCap
        /\ active' = active \ {j}
        /\ ressults' = Append(ressults, ev)
        /\ UNCHANGED <<MaxWorkers, MaxFail, jobs, jobsClosed, nextJob, resClosed,
                       pc, exitBy, cancelled, received, Runs, errorCount, stamps,
                       ret, artifact, flushErr, now, ctxDone, genVars, extVars, format, out, tickPending>>

(* Faulty variant: the result channel is closed while jobs are still running. *)
MayClose_Early(act, js, closed, done) == (js = <<>> /\ closed) \/ done

(* The result channel is closed once no job can be admitted any more *)
(* and every started job has emitted its terminal event.             *)
MayClose(act, js, closed, done) ==
    /\ act = {}
    /\ (js = <<>> /\ closed) \/ done

RunnerClose ==
    /\ pc = "loop"
    /\ ~resClosed
    /\ MayClose(active, jobs, jobsClosed, RunCtxDone)
    /\ resClosed' = TRUE
    /\ UNCHANGED <<MaxWorkers, MaxFail, jobs, jobsClosed, nextJob, active, ressults,
                   pc, exitBy, cancelled, received, Runs, errorCount, stamps,
                   ret, artifact, flushErr, now, ctxDone, genVars, extVars, format, out, tickPending>>

(* ---------------------------------------------------------------------- *)
(* runTests: the first interrupt cancels the context                       *)
(* ---------------------------------------------------------------------- *)
Interrupt ==
    /\ ~ctxDone
    /\ pc # "done"
    /\ ctxDone' = TRUE
    /\ UNCHANGED <<aggVars, genVars, extVars>>

ClockTick ==
    /\ now < MaxTime
    /\ now' = now + 1
    /\ UNCHANGED <<MaxWorkers, MaxFail, jobs, jobsClosed, nextJob, active, ressults,
                   resClosed, pc, exitBy, cancelled, received, Runs, errorCount,
                   stamps, ret, artifact, flushErr, ctxDone, genVars, extVars, format, out, tickPending>>

(* ---------------------------------------------------------------------- *)
(* nttRun                                                                  *)
(* ---------------------------------------------------------------------- *)

(* The stale artifact is removed and the runner is started. *)
NttRunStart ==
    /\ backend = "ntt"
    /\ pc = "start"
    /\ artifact' = RemoveStale(artifact)
    /\ pc' = "loop"
    /\ UNCHANGED <<MaxWorkers, MaxFail, jobs, jobsClosed, nextJob, active, ressults,
                   resClosed, exitBy, cancelled, received, Runs, errorCount,
                   stamps, ret, flushErr, now, ctxDone, genVars, extVars, format, out, tickPending>>

(* The output modes Format() can return. *)
Formats == {"quiet", "plain", "json", "text"}

Line(kind, name, verdict) == [kind |-> kind, name |-> name, verdict |-> verdict]

(* Faulty variant: plain mode prints a line for Start events too. *)
Render_PlainStart(fmt, ev, run) ==
    CASE fmt = "quiet" -> <<>>
      [] fmt = "plain" -> <<Line("plain", run.Name, run.Verdict)>>
      [] fmt = "json"  -> IF ev.type # "start"
                          THEN <<Line("json", run.Name, run.Verdict)>>
                          ELSE <<>>
      [] fmt = "text"  -> IF ev.type = "start"
                          THEN <<Line("run", run.Name, "")>>
                          ELSE IF run.Verdict = "fatal"
                          THEN <<Line("fatal", run.Name, run.Verdict)>>
                          ELSE <<Line("verdict", run.Name, run.Verdict)>>

(* switch Format(): the lines printed for one result. *)
Render(fmt, ev, run) ==
    CASE fmt = "quiet" -> <<>>
      [] fmt = "plain" -> IF ev.type # "start"
                          THEN <<Line("plain", run.Name, run.Verdict)>>
                          ELSE <<>>
      [] fmt = "json"  -> IF ev.type # "start"
                          THEN <<Line("json", run.Name, run.Verdict)>>
                          ELSE <<>>
      [] fmt = "text"  -> IF ev.type = "start"
                          THEN <<Line("run", run.Name, "")>>
                          ELSE IF run.Verdict = "fatal"
                          THEN <<Line("fatal", run.Name, run.Verdict)>>
                          ELSE <<Line("verdict", run.Name, run.Verdict)>>

(* The notice printed when the circuit breaker fires. *)
TooManyErrors == Line("notice", "", "fatal")

(* Leaving the loop: the return value, then the deferred FlushTestResults *)
(* (its error is dropped) and the deferred cancel.                        *)
Leave(how, runs, ec, w) ==
    /\ pc' = "done"
    /\ exitBy' = how
    /\ ret' = ReturnValue(ec)
    /\ artifact' = FlushTestResults(artifact, runs, MaxWorkers, w)
    /\ flushErr' = (w # "ok")
    /\ cancelled' = TRUE

(* case res, ok := <-ressults, with ok *)
RecvResult ==
    /\ pc = "loop"
    /\ ressults # <<>>
    /\ LET ev    == Head(ressults)
           ec    == NextErrorCount(errorCount, ev)
           begin == BeginOf(stamps, ev)
           runs  == NextRuns(Runs, ev, begin)
       IN /\ ressults' = Tail(ressults)
          /\ received' = Append(received, ev)
          /\ errorCount' = ec
          /\ stamps' = NextStamps(stamps, ev, now)
          /\ Runs' = runs
          /\ IF BreakerFires(MaxFail, ec)
             THEN /\ out' = Append(Render(format, ev, NewRun(ev, begin)), TooManyErrors)
                  /\ \E w \in WriteOutcomes : Leave("maxfail", runs, ec, w)
             ELSE /\ out' = Render(format, ev, NewRun(ev, begin))
                  /\ IF LoopEnds(TRUE, RunCtxDone)
                     THEN \E w \in WriteOutcomes : Leave("closed", runs, ec, w)
                     ELSE UNCHANGED <<pc, exitBy, cancelled, ret, artifact, flushErr>>
    \* ticker.Reset: a tick already in ticker.C stays or is dropped
    /\ tickPending' \in {tickPending, FALSE}
    /\ UNCHANGED <<MaxWorkers, MaxFail, jobs, jobsClosed, nextJob, active,
                   resClosed, now, ctxDone, genVars, extVars, format>>

(* case res, ok := <-ressults, with !ok: the channel is closed and drained *)
RecvClosed ==
    /\ pc = "loop"
    /\ ressults = <<>>
    /\ resClosed
    /\ LoopEnds(FALSE, RunCtxDone)
    /\ \E w \in WriteOutcomes : Leave("closed", Runs, errorCount, w)
    /\ UNCHANGED <<MaxWorkers, MaxFail, jobs, jobsClosed, nextJob, active, ressults,
                   resClosed, received, Runs, errorCount, stamps, now, ctxDone, genVars, extVars, format, out, tickPending>>

(* The ticker fires: TickerTime has passed since the last result. *)
TickerFire ==
    /\ pc = "loop"
    /\ ~tickPending
    /\ tickPending' = TRUE
    /\ UNCHANGED <<MaxWorkers, MaxFail, jobs, jobsClosed, nextJob, active, ressults,
                   resClosed, pc, exitBy, cancelled, received, Runs, errorCount,
                   stamps, ret, artifact, flushErr, now, ctxDone, genVars, extVars,
                   format, out>>

(* The enumerations of a set, in any order. *)
RECURSIVE Orders(_)
Orders(S) ==
    IF S = {} THEN {<<>>}
    ELSE UNION {{<<x>> \o q : q \in Orders(S \ {x})} : x \in S}

(* The lines of one liveness report: one per job of runner.Jobs(). *)
ActiveReport(fmt, order) ==
    IF fmt = "text"
    THEN [i \in 1..Len(order) |-> Line("active", order[i].Name, "")]
    ELSE <<>>

(* Faulty variant: a tick ends the loop as a closed channel does. *)
Tick_Leaves ==
    /\ pc = "loop"
    /\ tickPending
    /\ tickPending' = FALSE
    /\ \E order \in Orders(active) : out' = ActiveReport(format, order)
    /\ \E w \in WriteOutcomes : Leave("closed", Runs, errorCount, w)
    /\ UNCHANGED <<MaxWorkers, MaxFail, jobs, jobsClosed, nextJob, active, ressults,
                   resClosed, received, Runs, errorCount, stamps, now, ctxDone,
                   genVars, extVars, format>>

(* case <-ticker.C: the active jobs are reported, nothing is changed *)
Tick ==
    /\ pc = "loop"
    /\ tickPending
    /\ tickPending' = FALSE
    /\ \E order \in Orders(active) : out' = ActiveReport(format, order)
    /\ UNCHANGED <<MaxWorkers, MaxFail, jobs, jobsClosed, nextJob, active, ressults,
                   resClosed, pc, exitBy, cancelled, received, Runs, errorCount,
                   stamps, ret, artifact, flushErr, now, ctxDone, genVars, extVars,
                   format>>

(* ---------------------------------------------------------------------- *)
(* Strings of the run policy: strings.ToLower and strings.TrimSpace        *)
(* ---------------------------------------------------------------------- *)
UpperCase == <<"A", "B", "C", "D", "E", "F", "G", "H", "I", "J", "K", "L", "M",
               "N", "O", "P", "Q", "R", "S", "T", "U", "V", "W", "X", "Y", "Z">>
LowerCase == <<"a", "b", "c", "d", "e", "f", "g", "h", "i", "j", "k", "l", "m",
               "n", "o", "p", "q", "r", "s", "t", "u", "v", "w", "x", "y", "z">>
WhiteSpace == {" ", "\t", "\n", "\r"}

LowerChar(c) ==
    IF \E i \in 1..Len(UpperCase) : UpperCase[i] = c
    THEN LowerCase[CHOOSE i \in 1..Len(UpperCase) : UpperCase[i] = c]
    ELSE c

ToLower(str) == [i \in 1..Len(str) |-> LowerChar(str[i])]

RECURSIVE TrimLeft(_)
TrimLeft(str) ==
    IF str # <<>> /\ Head(str) \in WhiteSpace THEN TrimLeft(Tail(str)) ELSE str

RECURSIVE TrimRight(_)
TrimRight(str) ==
    IF str # <<>> /\ str[Len(str)] \in WhiteSpace
    THEN TrimRight(SubSeq(str, 1, Len(str) - 1))
    ELSE str

TrimSpace(str) == TrimRight(TrimLeft(str))

(* ---------------------------------------------------------------------- *)
(* Source files and the basket                                             *)
(* ---------------------------------------------------------------------- *)
Def(kind, id, tags) == [kind |-> kind, id |-> id, tags |-> tags]

File1 == << Def("test", "m1.A", {"stable"}), Def("func", "m1.f", {"stable"}),
            Def("control", "m1.control", {}), Def("test", "m1.B", {}) >>
File2 == << Def("control", "m2.control", {"stable"}), Def("test", "m2.A", {}) >>
FileSet == {File1, File2}

RECURSIVE SeqsUpTo(_, _)
SeqsUpTo(S, n) ==
    IF n = 0 THEN {<<>>}
    ELSE LET shorter == SeqsUpTo(S, n - 1)
         IN shorter \cup {Append(q, x) : q \in shorter, x \in S}

(* tree.Funcs(): the function definitions, test cases among them. *)
Funcs(tree) == SelectSeq(tree, LAMBDA d : d.kind \in {"test", "func"})

(* n.IsTest() *)
IsTest(d) == d.kind = "test"

(* tree.Controls(): the control parts. *)
Controls(tree) == SelectSeq(tree, LAMBDA d : d.kind = "control")

(* Basket.Match(id, tags) *)
Match(b, id, tags) == b.all \/ id \in b.names \/ (b.tags \cap tags) # {}

Baskets == { [all |-> TRUE, names |-> {}, tags |-> {}],
             [all |-> FALSE, names |-> {}, tags |-> {"stable"}],
             [all |-> FALSE, names |-> {"m1.B"}, tags |-> {}] }

Policies == { <<"o", "l", "d">>, <<" ", "O", "l", "D", "\t">>, <<>>,
              <<"n", "e", "w">>, <<"o", " ", "l", "d">> }

ExplicitNames == {"x.control", "m1.A"}

(* ---------------------------------------------------------------------- *)
(* GenerateIDs and the three generators                                    *)
(* ---------------------------------------------------------------------- *)

(* Faulty variant: the explicit list is used only when the policy is not "old". *)
GenerateIDs_PolicyFirst(idl, pol) ==
    CASE TrimSpace(ToLower(pol)) = <<"o", "l", "d">> -> "controls"
      [] Len(idl) > 0 -> "ids"
      [] OTHER -> "tests"

(* Faulty variant: the policy is compared as given. *)
GenerateIDs_RawPolicy(idl, pol) ==
    CASE Len(idl) > 0 -> "ids"
      [] pol = <<"o", "l", "d">> -> "controls"
      [] OTHER -> "tests"

(* The switch of GenerateIDs: which generator is started. *)
GenerateIDs(idl, pol) ==
    CASE Len(idl) > 0 -> "ids"
      [] TrimSpace(ToLower(pol)) = <<"o", "l", "d">> -> "controls"
      [] OTHER -> "tests"

(* How the parse of a file can end: well, with f.Bytes() failing, or *)
(* with an error of parser.Parse.                                   *)
ParseOutcomes == {"ok", "read", "syntax"}

(* ttcn3.ParseFile: &Tree{Err: err} when the file cannot be read, else *)
(* &Tree{Root: root, Err: err} with what parser.Parse returned.        *)
ParseFile(root, how) ==
    [Root |-> IF how = "read" THEN <<>> ELSE root, Err |-> how # "ok"]

(* The definitions a scan of one parsed file visits, in order. *)
Candidates(kind, tree) ==
    IF kind = "controls" THEN Controls(tree) ELSE SelectSeq(Funcs(tree), IsTest)

GenStart ==
    /\ gpc = "init"
    /\ gkind' = GenerateIDs(ids, policy)
    /\ gpc' = IF GenerateIDs(ids, policy) = "ids" THEN "ids" ELSE "file"
    /\ UNCHANGED <<aggVars, ctxDone, extVars, ferr, ids, files, policy, basket, gfile, gdef, emitted,
                   parsed, matchCalls, jpc, jhold, consuming, consumed>>

(* Faulty variant: an identifier seen before gets the job made for it then. *)
Handoff_Reuses(id) ==
    /\ jpc = "recv"
    /\ emitted' = Append(emitted, id)
    /\ nextJob' = nextJob + 1
    /\ jhold' = IF \E k \in 1..Len(emitted) : emitted[k] = id
                THEN NewJob(id, CHOOSE k \in 1..Len(emitted) : emitted[k] = id)
                ELSE NewJob(id, nextJob + 1)
    /\ jpc' = "send"

(* The receive of the job goroutine: for id := range GenerateIDs(...) *)
Handoff(id) ==
    /\ jpc = "recv"
    /\ emitted' = Append(emitted, id)
    /\ nextJob' = nextJob + 1
    /\ jhold' = NewJob(id, nextJob + 1)
    /\ jpc' = "send"

(* GenerateIDsWithContext: out <- id, whatever the context *)
IdsSend ==
    /\ gpc = "ids"
    /\ gdef <= Len(ids)
    /\ Handoff(ids[gdef])
    /\ gdef' = gdef + 1
    /\ UNCHANGED <<MaxWorkers, jobs, jobsClosed, runVars, ctxDone, extVars, ferr, ids, files, policy,
                   basket, gpc, gkind, gfile, parsed, matchCalls, consuming, consumed>>

(* GenerateIDsWithContext: the list is exhausted, defer close(out) *)
IdsClose ==
    /\ gpc = "ids"
    /\ gdef > Len(ids)
    /\ gpc' = "closed"
    /\ UNCHANGED <<aggVars, ctxDone, extVars, ferr, ids, files, policy, basket, gkind, gfile, gdef,
                   emitted, parsed, matchCalls, jpc, jhold, consuming, consumed>>

(* for _, src := range files: tree := ttcn3.ParseFile(src) *)
ScanFile ==
    /\ gpc = "file"
    /\ gfile <= Len(files)
    /\ parsed' = Append(parsed, gfile)
    /\ gdef' = 1
    /\ gpc' = "defs"
    /\ UNCHANGED <<aggVars, ctxDone, extVars, ferr, ids, files, policy, basket, gkind, gfile, emitted,
                   matchCalls, jpc, jhold, consuming, consumed>>

(* Every file is scanned: defer close(out) *)
ScanClose ==
    /\ gpc = "file"
    /\ gfile > Len(files)
    /\ gpc' = "closed"
    /\ UNCHANGED <<aggVars, ctxDone, extVars, ferr, ids, files, policy, basket, gkind, gfile, gdef,
                   emitted, parsed, matchCalls, jpc, jhold, consuming, consumed>>

(* generate: the basket is asked; a match goes on to the select *)
Visit ==
    /\ gpc = "defs"
    /\ LET cands == Candidates(gkind, ParseFile(files[gfile], ferr[gfile]).Root)
       IN IF gdef > Len(cands)
          THEN /\ gfile' = gfile + 1
               /\ gpc' = "file"
               /\ UNCHANGED <<gdef, matchCalls>>
          ELSE /\ matchCalls' = matchCalls + 1
               /\ IF Match(basket, cands[gdef].id, cands[gdef].tags)
                  THEN gpc' = "send" /\ gdef' = gdef
                  ELSE gpc' = "defs" /\ gdef' = gdef + 1
               /\ gfile' = gfile
    /\ UNCHANGED <<aggVars, ctxDone, extVars, ferr, ids, files, policy, basket, gkind, emitted, parsed,
                   jpc, jhold, consuming, consumed>>

(* generate: select { case c <- id: } *)
GenSend ==
    /\ gpc = "send"
    /\ Handoff(Candidates(gkind, ParseFile(files[gfile], ferr[gfile]).Root)[gdef].id)
    /\ gdef' = gdef + 1
    /\ gpc' = "defs"
    /\ UNCHANGED <<MaxWorkers, jobs, jobsClosed, runVars, ctxDone, extVars, ferr, ids, files, policy,
                   basket, gkind, gfile, parsed, matchCalls, consuming, consumed>>

(* generate: select { case <-ctx.Done(): return false }, then close(out) *)
GenAbort ==
    /\ gpc = "send"
    /\ ctxDone
    /\ gpc' = "closed"
    /\ UNCHANGED <<aggVars, ctxDone, extVars, ferr, ids, files, policy, basket, gkind, gfile, gdef,
                   emitted, parsed, matchCalls, jpc, jhold, consuming, consumed>>

(* ---------------------------------------------------------------------- *)
(* GenerateJobs: the job goroutine and the consumer of the job channel     *)
(* ---------------------------------------------------------------------- *)

(* out := make(chan *run.Job, size) *)
JobChanHasRoom(js, size) == Len(js) < size

(* out <- runner.NewJob(id, suite), whatever the context *)
JobSend ==
    /\ jpc = "send"
    /\ JobChanHasRoom(jobs, MaxWorkers)
    /\ jobs' = Append(jobs, jhold)
    /\ jpc' = "recv"
    /\ UNCHANGED <<MaxWorkers, jobsClosed, nextJob, runVars, ctxDone, extVars, ferr, ids, files, policy,
                   basket, gpc, gkind, gfile, gdef, emitted, parsed, matchCalls, jhold,
                   consuming, consumed>>

(* The id channel is closed: the range loop ends, defer close(out) *)
JobsClose ==
    /\ jpc = "recv"
    /\ gpc = "closed"
    /\ jpc' = "closed"
    /\ jobsClosed' = TRUE
    /\ UNCHANGED <<MaxWorkers, jobs, nextJob, runVars, ctxDone, extVars, ferr, ids, files, policy,
                   basket, gpc, gkind, gfile, gdef, emitted, parsed, matchCalls, jhold,
                   consuming, consumed>>

(* The runner (or k3sJobs) receives a job. *)
ConsumeJob ==
    /\ consuming
    /\ jobs # <<>>
    /\ jobs' = Tail(jobs)
    /\ consumed' = Append(consumed, Head(jobs))
    /\ UNCHANGED <<MaxWorkers, jobsClosed, nextJob, runVars, ctxDone, extVars, ferr, ids, files, policy,
                   basket, gpc, gkind, gfile, gdef, emitted, parsed, matchCalls, jpc,
                   jhold, consuming>>

(* The consumer stops receiving jobs. *)
ConsumerStop ==
    /\ consuming
    /\ consuming' = FALSE
    /\ UNCHANGED <<aggVars, ctxDone, extVars, ferr, ids, files, policy, basket, gpc, gkind, gfile, gdef,
                   emitted, parsed, matchCalls, jpc, jhold, consumed>>

(* The first interrupt: cancel() of the context of runTests. *)
Cancel ==
    /\ ~ctxDone
    /\ ctxDone' = TRUE
    /\ UNCHANGED <<aggVars, genVars, extVars>>

GenIdle ==
    /\ ids = <<>>
    /\ files = <<>>
    /\ policy = <<>>
    /\ basket = [all |-> TRUE, names |-> {}, tags |-> {}]
    /\ gpc = "init"
    /\ gkind = "none"
    /\ gfile = 1
    /\ gdef = 1
    /\ emitted = <<>>
    /\ parsed = <<>>
    /\ matchCalls = 0
    /\ jpc = "recv"
    /\ jhold = NewJob("", 0)
    /\ consuming = TRUE
    /\ consumed = <<>>
    /\ ferr = <<>>

(* The signal handling of runTests, left out. *)
SigIdle ==
    /\ sigpc = "select"
    /\ sigchan = 0
    /\ notifying = TRUE
    /\ sigSent = 0
    /\ mainpc = "running"
    /\ exitStatus = "none"

(* SCT_K3_SERVER is not set: runTests calls nttRun. *)
K3sIdle ==
    /\ env = [ok |-> FALSE, s |-> <<>>]
    /\ backend = "ntt"
    /\ k3sIds = <<>>
    /\ k3sStdin = <<>>
    /\ k3sArgs = <<>>

(* No caller of ParseFile. *)
ParseIdle ==
    /\ NumCPU = 1
    /\ ppc = <<>>
    /\ parseLimit = 0

(* Discover is not called. *)
DiscIdle ==
    /\ dfs = [walk |-> <<>>, manifests |-> {}, own |-> <<>>, globbed |-> <<>>]
    /\ dpc = "idle"
    /\ dlevel = 1
    /\ dlist = <<>>
    /\ di = 1
    /\ dvisited = {}
    /\ dresult = <<>>

RunIdle ==
    /\ MaxFail = 0
    /\ active = {}
    /\ ressults = <<>>
    /\ resClosed = FALSE
    /\ pc = "start"
    /\ exitBy = "none"
    /\ cancelled = FALSE
    /\ received = <<>>
    /\ Runs = <<>>
    /\ errorCount = 0
    /\ stamps = [j \in JobIds |-> ZeroTime]
    /\ ret = Pending
    /\ artifact = NoFile
    /\ flushErr = FALSE
    /\ now = 1
    /\ format = "text"
    /\ out = <<>>
    /\ tickPending = FALSE

Init ==
    /\ MaxWorkers \in 1..WorkersBound
    /\ MaxFail \in 0..MaxFailBound
    /\ ctxDone = FALSE
    /\ jobs = <<>>
    /\ jobsClosed = FALSE
    /\ nextJob = 0
    /\ active = {}
    /\ ressults = <<>>
    /\ resClosed = FALSE
    /\ pc = "start"
    /\ exitBy = "none"
    /\ cancelled = FALSE
    /\ received = <<>>
    /\ Runs = <<>>
    /\ errorCount = 0
    /\ stamps = [j \in JobIds |-> ZeroTime]
    /\ ret = Pending
    /\ artifact \in {NoFile, StaleFile}
    /\ flushErr = FALSE
    /\ now = 1
    /\ format = "text"
    /\ out = <<>>
    /\ tickPending = FALSE
    /\ GenIdle
    /\ SigIdle
    /\ K3sIdle
    /\ ParseIdle
    /\ DiscIdle

Next ==
    \/ GenJob
    \/ GenDone
    \/ WorkerStart
    \/ WorkerFinish
    \/ RunnerClose
    \/ Interrupt
    \/ NttRunStart
    \/ RecvResult
    \/ RecvClosed

Spec == Init /\ [][Next]_vars

(* The same run with the liveness ticker firing whenever it may. *)
TickNext == Next \/ TickerFire \/ Tick

TickSpec == Init /\ [][TickNext]_vars

(* The same run with the wall clock advancing between any two steps. *)
TimedNext == Next \/ ClockTick

TimedSpec == Init /\ [][TimedNext]_vars

(* The identifier and job generators, with a consumer of the job channel. *)
GenInit ==
    /\ MaxWorkers \in 1..WorkersBound
    /\ ctxDone = FALSE
    /\ jobs = <<>>
    /\ jobsClosed = FALSE
    /\ nextJob = 0
    /\ RunIdle
    /\ ids \in SeqsUpTo(ExplicitNames, MaxIds)
    /\ files \in SeqsUpTo(FileSet, MaxFiles)
    /\ policy \in Policies
    /\ basket \in Baskets
    /\ gpc = "init"
    /\ gkind = "none"
    /\ gfile = 1
    /\ gdef = 1
    /\ emitted = <<>>
    /\ parsed = <<>>
    /\ matchCalls = 0
    /\ jpc = "recv"
    /\ jhold = NewJob("", 0)
    /\ consuming = TRUE
    /\ consumed = <<>>
    /\ ferr = [i \in 1..Len(files) |-> "ok"]
    /\ SigIdle
    /\ K3sIdle
    /\ ParseIdle
    /\ DiscIdle

GenNext ==
    \/ GenStart
    \/ IdsSend
    \/ IdsClose
    \/ ScanFile
    \/ ScanClose
    \/ Visit
    \/ GenSend
    \/ GenAbort
    \/ JobSend
    \/ JobsClose
    \/ ConsumeJob
    \/ ConsumerStop
    \/ Cancel

GenSpec == GenInit /\ [][GenNext]_vars

(* ---------------------------------------------------------------------- *)
(* runTests: the interrupt handling                                        *)
(* ---------------------------------------------------------------------- *)

(* signal.Notify(signalChan, os.Interrupt): from here on interrupts are *)
(* sent to signalChan instead of ending the process.                    *)
Notify ==
    /\ exitStatus = "none"
    /\ mainpc = "setup"
    /\ notifying' = TRUE
    /\ mainpc' = "running"
    /\ UNCHANGED <<aggVars, genVars, ctxDone, k3sVars, parseVars, discVars, sigpc, sigchan,
                   sigSent, exitStatus>>

(* An interrupt reaches the process.  While Notify is in effect it is put *)
(* into signalChan unless the buffer is full (then it is dropped);        *)
(* otherwise the default action ends the process.                         *)
SendInterrupt ==
    /\ exitStatus = "none"
    /\ sigSent < MaxSignals
    /\ sigSent' = sigSent + 1
    /\ IF notifying
       THEN /\ sigchan' = 1
            /\ UNCHANGED exitStatus
       ELSE /\ exitStatus' = "killed"
            /\ UNCHANGED sigchan
    /\ UNCHANGED <<aggVars, genVars, ctxDone, k3sVars, parseVars, discVars, sigpc, notifying,
                   mainpc>>

(* select, case <-signalChan: the first signal cancels the context *)
SigFirst ==
    /\ exitStatus = "none"
    /\ mainpc # "setup"
    /\ sigpc = "select"
    /\ sigchan = 1
    /\ sigchan' = 0
    /\ ctxDone' = TRUE
    /\ sigpc' = "second"
    /\ UNCHANGED <<aggVars, genVars, k3sVars, parseVars, discVars, notifying, sigSent, mainpc,
                   exitStatus>>

(* select, case <-ctx.Done() *)
SigCtxDone ==
    /\ exitStatus = "none"
    /\ mainpc # "setup"
    /\ sigpc = "select"
    /\ ctxDone
    /\ sigpc' = "second"
    /\ UNCHANGED <<aggVars, genVars, ctxDone, k3sVars, parseVars, discVars, sigchan, notifying,
                   sigSent, mainpc, exitStatus>>

(* <-signalChan, then os.Exit(2) *)
SigSecond ==
    /\ exitStatus = "none"
    /\ sigpc = "second"
    /\ sigchan = 1
    /\ sigchan' = 0
    /\ sigpc' = "exited"
    /\ exitStatus' = "forced"
    /\ UNCHANGED <<aggVars, genVars, ctxDone, k3sVars, parseVars, discVars, notifying, sigSent,
                   mainpc>>

(* runTests returns, with an error or without: the deferred signal.Stop *)
(* and cancel run.                                                      *)
RunTestsReturn ==
    /\ exitStatus = "none"
    /\ mainpc = "running"
    /\ ret' \in {NilError, ReturnValue(1)}
    /\ notifying' = FALSE
    /\ ctxDone' = TRUE
    /\ mainpc' = "returned"
    /\ UNCHANGED <<MaxWorkers, MaxFail, jobs, jobsClosed, nextJob, active, ressults,
                   resClosed, pc, exitBy, cancelled, received, Runs, errorCount,
                   stamps, artifact, flushErr, now, format, out, tickPending,
                   genVars, k3sVars, parseVars, discVars, sigpc, sigchan, sigSent, exitStatus>>

(* main returns and the process ends with the status of the run. *)
ProcessExit ==
    /\ exitStatus = "none"
    /\ mainpc = "returned"
    /\ exitStatus' = IF ret = NilError THEN "ok" ELSE "failed"
    /\ UNCHANGED <<aggVars, genVars, ctxDone, k3sVars, parseVars, discVars, sigpc, sigchan,
                   notifying, sigSent, mainpc>>

SigInit ==
    /\ MaxWorkers = 1
    /\ ctxDone = FALSE
    /\ jobs = <<>>
    /\ jobsClosed = FALSE
    /\ nextJob = 0
    /\ RunIdle
    /\ GenIdle
    /\ K3sIdle
    /\ ParseIdle
    /\ DiscIdle
    /\ sigpc = "select"
    /\ sigchan = 0
    /\ notifying = FALSE
    /\ sigSent = 0
    /\ mainpc = "setup"
    /\ exitStatus = "none"

SigNext ==
    \/ Notify
    \/ SendInterrupt
    \/ SigFirst
    \/ SigCtxDone
    \/ SigSecond
    \/ RunTestsReturn
    \/ ProcessExit

SigSpec == SigInit /\ [][SigNext]_vars

(* ---------------------------------------------------------------------- *)
(* runTests: the choice of the backend, and k3sRun                         *)
(* ---------------------------------------------------------------------- *)

(* What os.LookupEnv("SCT_K3_SERVER") can return. *)
Envs ==
    {[ok |-> FALSE, s |-> <<>>]} \cup
    {[ok |-> TRUE, s |-> v] : v \in {<<"n", "t", "t">>, <<"N", "T", "T">>,
                                     <<"o", "f", "f">>, <<"O", "f", "f">>,
                                     <<"o", "n">>}}

(* Faulty variant: the value "off" does not switch the delegate off. *)
UseDelegate_IgnoresOff(e) == e.ok /\ e.s # <<"n", "t", "t">>

(* ok && s != "ntt" && strings.ToLower(s) != "off" *)
UseDelegate(e) ==
    e.ok /\ e.s # <<"n", "t", "t">> /\ ToLower(e.s) # <<"o", "f", "f">>

(* strings.Join(elems, sep) *)
RECURSIVE Join(_, _)
Join(elems, sep) ==
    IF Len(elems) = 0 THEN <<>>
    ELSE IF Len(elems) = 1 THEN <<elems[1]>>
    ELSE <<elems[1], sep>> \o Join(Tail(elems), sep)

(* What k3s.Run() can return: nil or the error of the delegate. *)
DelegateResults == {NilError, [kind |-> "ExitError", n |-> 1]}

(* The if of runTests that picks k3sRun or nttRun. *)
SelectBackend ==
    /\ backend = "undecided"
    /\ backend' = IF UseDelegate(env) THEN "k3s" ELSE "ntt"
    /\ UNCHANGED <<aggVars, genVars, ctxDone, sigVars, parseVars, discVars, env, k3sIds,
                   k3sStdin, k3sArgs>>

(* k3sJobs: for j := range jobs { ids = append(ids, j.Name) } *)
K3sJobsRecv ==
    /\ backend = "k3s"
    /\ ret = Pending
    /\ jobs # <<>>
    /\ jobs' = Tail(jobs)
    /\ k3sIds' = Append(k3sIds, Head(jobs).Name)
    /\ UNCHANGED <<MaxWorkers, jobsClosed, nextJob, runVars, genVars, ctxDone,
                   sigVars, parseVars, discVars, env, backend, k3sStdin, k3sArgs>>

(* k3sRun once the job channel is closed: the delegate is run with the *)
(* collected names as its standard input and its result is returned.   *)
K3sRun ==
    /\ backend = "k3s"
    /\ ret = Pending
    /\ jobs = <<>>
    /\ jobsClosed
    /\ k3sArgs' = <<"--no-summary", "--results-file", <<"-j", MaxWorkers>>>>
    /\ k3sStdin' = Join(k3sIds, "\n")
    /\ ret' \in DelegateResults
    /\ UNCHANGED <<MaxWorkers, MaxFail, jobs, jobsClosed, nextJob, active, ressults,
                   resClosed, pc, exitBy, cancelled, received, Runs, errorCount,
                   stamps, artifact, flushErr, now, format, out, tickPending,
                   genVars, ctxDone, sigVars, parseVars, discVars, env, backend, k3sIds>>

(* runTests up to its last statement, a previous run having left its *)
(* artifact behind.                                                  *)
K3sInit ==
    /\ MaxWorkers \in 1..WorkersBound
    /\ ctxDone = FALSE
    /\ jobs = <<>>
    /\ jobsClosed = FALSE
    /\ nextJob = 0
    /\ MaxFail = 0
    /\ active = {}
    /\ ressults = <<>>
    /\ resClosed = FALSE
    /\ pc = "start"
    /\ exitBy = "none"
    /\ cancelled = FALSE
    /\ received = <<>>
    /\ Runs = <<>>
    /\ errorCount = 0
    /\ stamps = [j \in JobIds |-> ZeroTime]
    /\ ret = Pending
    /\ artifact = StaleFile
    /\ flushErr = FALSE
    /\ now = 1
    /\ format = "text"
    /\ out = <<>>
    /\ tickPending = FALSE
    /\ ids \in SeqsUpTo(ExplicitNames, MaxIds)
    /\ files \in SeqsUpTo(FileSet, MaxFiles)
    /\ policy \in {<<>>, <<"o", "l", "d">>}
    /\ basket = [all |-> TRUE, names |-> {}, tags |-> {}]
    /\ gpc = "init"
    /\ gkind = "none"
    /\ gfile = 1
    /\ gdef = 1
    /\ emitted = <<>>
    /\ parsed = <<>>
    /\ matchCalls = 0
    /\ jpc = "recv"
    /\ jhold = NewJob("", 0)
    /\ consuming = TRUE
    /\ consumed = <<>>
    /\ ferr = [i \in 1..Len(files) |-> "ok"]
    /\ SigIdle
    /\ ParseIdle
    /\ DiscIdle
    /\ env \in Envs
    /\ backend = "undecided"
    /\ k3sIds = <<>>
    /\ k3sStdin = <<>>
    /\ k3sArgs = <<>>

K3sNext ==
    \/ GenStart
    \/ IdsSend
    \/ IdsClose
    \/ ScanFile
    \/ ScanClose
    \/ Visit
    \/ GenSend
    \/ GenAbort
    \/ JobSend
    \/ JobsClose
    \/ Cancel
    \/ SelectBackend
    \/ NttRunStart
    \/ K3sJobsRecv
    \/ K3sRun

K3sSpec == K3sInit /\ [][K3sNext]_vars

(* ---------------------------------------------------------------------- *)
(* nttRun on any result stream                                             *)
(* ---------------------------------------------------------------------- *)

(* The verdicts a Stop event can carry, the empty one among them. *)
StopVerdicts == Verdicts \cup {""}

(* The causes an Error event can carry. *)
Causes == {"timeout", "crash"}

(* The events a result of the stream can hold. *)
AnyEvents(t) ==
    UNION {{StartEvent(NewJob(JobName(n), n), t)}
             \cup {StopEvent(NewJob(JobName(n), n), v, t) : v \in StopVerdicts}
             \cup {[ErrorEvent(NewJob(JobName(n), n), t) EXCEPT !.cause = c] : c \in Causes}
           : n \in JobIds}

(* The runner sends some result. *)
FeedResult ==
    /\ pc = "loop"
    /\ ~resClosed
    /\ Len(ressults) < ResultsCap
    /\ Len(received) + Len(ressults) < MaxEvents
    /\ \E ev \in AnyEvents(now) : ressults' = Append(ressults, ev)
    /\ UNCHANGED <<MaxWorkers, MaxFail, jobs, jobsClosed, nextJob, active, resClosed,
                   pc, exitBy, cancelled, received, Runs, errorCount, stamps,
                   ret, artifact, flushErr, now, ctxDone, genVars, extVars, format,
                   out, tickPending>>

(* The runner closes the result channel. *)
FeedClose ==
    /\ pc = "loop"
    /\ ~resClosed
    /\ resClosed' = TRUE
    /\ UNCHANGED <<MaxWorkers, MaxFail, jobs, jobsClosed, nextJob, active, ressults,
                   pc, exitBy, cancelled, received, Runs, errorCount, stamps,
                   ret, artifact, flushErr, now, ctxDone, genVars, extVars, format,
                   out, tickPending>>

LoopInit ==
    /\ MaxWorkers = 1
    /\ MaxFail \in 0..MaxFailBound
    /\ ctxDone = FALSE
    /\ jobs = <<>>
    /\ jobsClosed = FALSE
    /\ nextJob = 0
    /\ active = {}
    /\ ressults = <<>>
    /\ resClosed = FALSE
    /\ pc = "start"
    /\ exitBy = "none"
    /\ cancelled = FALSE
    /\ received = <<>>
    /\ Runs = <<>>
    /\ errorCount = 0
    /\ stamps = [j \in JobIds |-> ZeroTime]
    /\ ret = Pending
    /\ artifact = NoFile
    /\ flushErr = FALSE
    /\ now = 1
    /\ format \in Formats
    /\ out = <<>>
    /\ tickPending = FALSE
    /\ GenIdle
    /\ SigIdle
    /\ K3sIdle
    /\ ParseIdle
    /\ DiscIdle

LoopNext ==
    \/ NttRunStart
    \/ FeedResult
    \/ FeedClose
    \/ RecvResult
    \/ RecvClosed

LoopSpec == LoopInit /\ [][LoopNext]_vars

(* The scan of source files some of which fail to parse. *)
ScanInit ==
    /\ MaxWorkers \in 1..WorkersBound
    /\ ctxDone = FALSE
    /\ jobs = <<>>
    /\ jobsClosed = FALSE
    /\ nextJob = 0
    /\ RunIdle
    /\ ids = <<>>
    /\ files \in SeqsUpTo(FileSet, MaxFiles)
    /\ ferr \in [1..Len(files) -> ParseOutcomes]
    /\ policy \in {<<>>, <<"o", "l", "d">>}
    /\ basket \in Baskets
    /\ gpc = "init"
    /\ gkind = "none"
    /\ gfile = 1
    /\ gdef = 1
    /\ emitted = <<>>
    /\ parsed = <<>>
    /\ matchCalls = 0
    /\ jpc = "recv"
    /\ jhold = NewJob("", 0)
    /\ consuming = TRUE
    /\ consumed = <<>>
    /\ SigIdle
    /\ K3sIdle
    /\ ParseIdle
    /\ DiscIdle

ScanNext ==
    \/ GenStart
    \/ ScanFile
    \/ ScanClose
    \/ Visit
    \/ GenSend
    \/ GenAbort
    \/ JobSend
    \/ JobsClose
    \/ ConsumeJob
    \/ Cancel

ScanSpec == ScanInit /\ [][ScanNext]_vars

(* ---------------------------------------------------------------------- *)
(* ttcn3.ParseFile called from several goroutines, each on its own file    *)
(* ---------------------------------------------------------------------- *)
Callers == 1..MaxCallers

(* ParseFile is called: the function bound in the cache starts. *)
ParseCall(c) ==
    /\ ppc[c] \in {"idle", "ok", "read", "syntax"}
    /\ ppc' = [ppc EXCEPT ![c] = "bytes"]
    /\ UNCHANGED <<aggVars, genVars, ctxDone, sigVars, k3sVars, discVars, NumCPU, parseLimit>>

(* b, err := f.Bytes() with an error: return &Tree{Err: err} *)
ReadFail(c) ==
    /\ ppc[c] = "bytes"
    /\ ppc' = [ppc EXCEPT ![c] = "read"]
    /\ UNCHANGED <<aggVars, genVars, ctxDone, sigVars, k3sVars, discVars, NumCPU, parseLimit>>

(* b, err := f.Bytes() without an error *)
ReadOk(c) ==
    /\ ppc[c] = "bytes"
    /\ ppc' = [ppc EXCEPT ![c] = "acquire"]
    /\ UNCHANGED <<aggVars, genVars, ctxDone, sigVars, k3sVars, discVars, NumCPU, parseLimit>>

(* parseLimit <- struct{}{}: blocks while the channel is full *)
Acquire(c) ==
    /\ ppc[c] = "acquire"
    /\ parseLimit < NumCPU
    /\ parseLimit' = parseLimit + 1
    /\ ppc' = [ppc EXCEPT ![c] = "parsing"]
    /\ UNCHANGED <<aggVars, genVars, ctxDone, sigVars, k3sVars, discVars, NumCPU>>

(* Faulty variant: the permit is given back only when the parse succeeded. *)
Release_OnSuccess(held, how) == IF how = "ok" THEN held - 1 ELSE held

(* defer func() { <-parseLimit }() *)
Release(held, how) == held - 1

(* parser.Parse returns, with an error or without, and the deferred *)
(* function gives the permit back.                                  *)
ParseEnd(c) ==
    /\ ppc[c] = "parsing"
    /\ \E how \in {"ok", "syntax"} :
         /\ ppc' = [ppc EXCEPT ![c] = how]
         /\ parseLimit' = Release(parseLimit, how)
    /\ UNCHANGED <<aggVars, genVars, ctxDone, sigVars, k3sVars, discVars, NumCPU>>

ParseInit ==
    /\ MaxWorkers = 1
    /\ ctxDone = FALSE
    /\ jobs = <<>>
    /\ jobsClosed = FALSE
    /\ nextJob = 0
    /\ RunIdle
    /\ GenIdle
    /\ SigIdle
    /\ K3sIdle
    /\ DiscIdle
    /\ NumCPU \in 1..CpuBound
    /\ ppc = [c \in Callers |-> "idle"]
    /\ parseLimit = 0

ParseNext ==
    \E c \in Callers :
        \/ ParseCall(c)
        \/ ReadFail(c)
        \/ ReadOk(c)
        \/ Acquire(c)
        \/ ParseEnd(c)

ParseSpec == ParseInit /\ [][ParseNext]_vars

(* ---------------------------------------------------------------------- *)
(* project.Discover                                                        *)
(* ---------------------------------------------------------------------- *)

(* The directories from a path up to the root. *)
AllWalk == <<"/a/b/c", "/a/b", "/a", "/">>

(* fs.WalkUp(path, f): the directories f is called with, path first. *)
WalkUp(n) == SubSeq(AllWalk, Len(AllWalk) - n + 1, Len(AllWalk))

(* A suite index file: suiteindex.ReadFile fails, or gives the RootDir *)
(* of each of its suites.                                              *)
Index(err, suites) == [err |-> err, suites |-> suites]

IndexFiles ==
    {Index(TRUE, <<>>)} \cup
    {Index(FALSE, q) : q \in {<<>>, <<"/x">>, <<"", "/a">>, <<"/x", "/a">>,
                               <<"/a", "/a">>}}

(* What the two globs for build directories find in one directory. *)
Globbed == {<<>>, <<Index(FALSE, <<"/x", "/">>)>>}

(* readSuites(file): the roots of the index that hold a manifest *)
readSuites(ix, manifests) ==
    IF ix.err THEN <<>>
    ELSE SelectSeq(ix.suites, LAMBDA root : root # "" /\ root \in manifests)

RECURSIVE Concat(_)
Concat(ss) == IF ss = <<>> THEN <<>> ELSE Head(ss) \o Concat(Tail(ss))

(* The callback of fs.WalkUp for one directory: what it appends to list. *)
Collect(fsys, k) ==
    (IF fsys.walk[k] \in fsys.manifests THEN <<fsys.walk[k]>> ELSE <<>>)
      \o readSuites(fsys.own[k], fsys.manifests)
      \o Concat([g \in 1..Len(fsys.globbed[k]) |->
                   readSuites(fsys.globbed[k][g], fsys.manifests)])

(* Faulty variant: every element of list is copied to result. *)
NextResult_KeepsAll(res, vis, v) == Append(res, v)

(* if !visited[v] { visited[v] = true; result = append(result, v) } *)
NextResult(res, vis, v) == IF v \notin vis THEN Append(res, v) ELSE res

(* fs.WalkUp calls the callback for the next directory. *)
WalkDir ==
    /\ dpc = "walk"
    /\ dlevel <= Len(dfs.walk)
    /\ dlist' = dlist \o Collect(dfs, dlevel)
    /\ dlevel' = dlevel + 1
    /\ UNCHANGED <<aggVars, genVars, ctxDone, sigVars, k3sVars, parseVars, dfs, dpc,
                   di, dvisited, dresult>>

(* The walk has reached the root: the loop that removes duplicates begins. *)
WalkEnd ==
    /\ dpc = "walk"
    /\ dlevel > Len(dfs.walk)
    /\ dpc' = "dedup"
    /\ UNCHANGED <<aggVars, genVars, ctxDone, sigVars, k3sVars, parseVars, dfs,
                   dlevel, dlist, di, dvisited, dresult>>

(* for _, v := range list: one element *)
DedupStep ==
    /\ dpc = "dedup"
    /\ di <= Len(dlist)
    /\ dresult' = NextResult(dresult, dvisited, dlist[di])
    /\ dvisited' = dvisited \cup {dlist[di]}
    /\ di' = di + 1
    /\ UNCHANGED <<aggVars, genVars, ctxDone, sigVars, k3sVars, parseVars, dfs, dpc,
                   dlevel, dlist>>

(* return result *)
DiscoverReturn ==
    /\ dpc = "dedup"
    /\ di > Len(dlist)
    /\ dpc' = "done"
    /\ UNCHANGED <<aggVars, genVars, ctxDone, sigVars, k3sVars, parseVars, dfs,
                   dlevel, dlist, di, dvisited, dresult>>

DiscInit ==
    /\ MaxWorkers = 1
    /\ ctxDone = FALSE
    /\ jobs = <<>>
    /\ jobsClosed = FALSE
    /\ nextJob = 0
    /\ RunIdle
    /\ GenIdle
    /\ SigIdle
    /\ K3sIdle
    /\ ParseIdle
    /\ \E n \in 1..DiscDepth :
         dfs \in [walk : {WalkUp(n)},
                  manifests : SUBSET {"/a", "/", "/x"},
                  own : [1..n -> IndexFiles],
                  globbed : [1..n -> Globbed]]
    /\ dpc = "walk"
    /\ dlevel = 1
    /\ dlist = <<>>
    /\ di = 1
    /\ dvisited = {}
    /\ dresult = <<>>

DiscNext ==
    \/ WalkDir
    \/ WalkEnd
    \/ DedupStep
    \/ DiscoverReturn

DiscSpec == DiscInit /\ [][DiscNext]_vars

(* Weak fairness: every goroutine that can take a step eventually takes it. *)
FairSpec ==
    /\ Spec
    /\ WF_vars(NttRunStart)
    /\ WF_vars(RecvResult)
    /\ WF_vars(RecvClosed)
    /\ WF_vars(WorkerStart)
    /\ WF_vars(WorkerFinish)
    /\ WF_vars(RunnerClose)

(* ---------------------------------------------------------------------- *)
(* Properties                                                              *)
(* ---------------------------------------------------------------------- *)
Terminals(evs) == SelectSeq(evs, LAMBDA e : e.type \in {"stop", "error"})
Starts(evs) == SelectSeq(evs, LAMBDA e : e.type = "start")
Failing(e) == e.type = "error" \/ (e.type = "stop" /\ e.verdict # "pass")
Failures(evs) == SelectSeq(evs, Failing)
IsPrefix(p, q) == Len(p) <= Len(q) /\ SubSeq(q, 1, Len(p)) = p

(* C1: the ledger has one entry per terminal (Stop or Error) result received *)
(* so far, the i-th entry being that of the i-th terminal result; no entry   *)
(* stands for a Start event.                                                 *)
C1_LedgerCountsTerminals ==
    /\ Len(Runs) = Len(Terminals(received))
    /\ \A i \in 1..Len(Runs) :
         /\ Runs[i].Name = Terminals(received)[i].job.Name
         /\ Runs[i].End = Terminals(received)[i].time

C1_Witness ==
    /\ pc = "loop"
    /\ Len(Runs) >= 2
    /\ Len(Starts(received)) > Len(Runs)

(* C2: the error counter is the number of terminal results received so far   *)
(* that are an Error or a Stop with a verdict other than "pass" (a Start     *)
(* never counts), and no step of a run decreases it.                         *)
C2_ErrorCountIsFailures ==
    /\ [](errorCount = Len(Failures(received)))
    /\ [][errorCount' >= errorCount]_vars

C2_Witness ==
    /\ errorCount = 2
    /\ Len(Starts(received)) >= 2
    /\ Len(Terminals(received)) = 3

(* C3: with MaxFail = 0, nttRun returns nil exactly when every terminal      *)
(* result received is a Stop with verdict "pass"; otherwise it returns       *)
(* ErrCommandFailed with the number of non-pass terminal results.            *)
C3_ExitStatus ==
    (MaxFail = 0 /\ pc = "done") =>
        /\ ret # Pending
        /\ ret = NilError <=>
             \A i \in 1..Len(received) :
                received[i].type # "start" =>
                    received[i].type = "stop" /\ received[i].verdict = "pass"
        /\ ret # NilError =>
             /\ ret.kind = "ErrCommandFailed"
             /\ ret.n = Len(Failures(received))

C3_Witness ==
    /\ MaxFail = 0
    /\ pc = "done"
    /\ ret.kind = "ErrCommandFailed"
    /\ ret.n = 2
    /\ Len(Runs) = 3

(* C4: with MaxFail = k > 0 the loop is left by the breaker exactly when the *)
(* k-th failing terminal result has been processed: while it runs the        *)
(* counter is below k, when the breaker fired the counter is k, the last     *)
(* result received and the last ledger entry are that k-th failure, the      *)
(* context is cancelled and nttRun returned a failure.                       *)
C4_CircuitBreaker ==
    MaxFail > 0 =>
        /\ pc = "loop" => errorCount < MaxFail
        /\ exitBy = "closed" => errorCount < MaxFail
        /\ exitBy = "maxfail" =>
             /\ pc = "done"
             /\ errorCount = MaxFail
             /\ Len(Failures(received)) = MaxFail
             /\ Failing(received[Len(received)])
             /\ Len(Runs) = Len(Terminals(received))
             /\ Runs[Len(Runs)].Name = received[Len(received)].job.Name
             /\ cancelled
             /\ ret = [kind |-> "ErrCommandFailed", n |-> MaxFail]

C4_Witness ==
    /\ exitBy = "maxfail"
    /\ MaxFail = 2
    /\ Len(Runs) = 2
    /\ ressults # <<>>
    /\ active # {}

(* C5: after the first interrupt, when the breaker does not fire, the loop   *)
(* is left only once the result channel is closed and drained, every job     *)
(* that was started has its terminal result in the ledger, and the loop      *)
(* does terminate.                                                           *)
C5_DrainsAfterCancel ==
    /\ []((ctxDone /\ pc = "done" /\ exitBy = "closed") =>
            /\ resClosed
            /\ ressults = <<>>
            /\ active = {}
            /\ \A i \in 1..Len(received) :
                 received[i].type = "start" =>
                    \E k \in 1..Len(received) :
                       /\ k > i
                       /\ received[k].type # "start"
                       /\ received[k].job = received[i].job
            /\ Len(Runs) = Len(Starts(received)))
    /\ (ctxDone ~> pc = "done")

C5_Witness ==
    /\ ctxDone
    /\ pc = "done"
    /\ exitBy = "closed"
    /\ Len(Runs) = 2
    /\ jobs # <<>>
    /\ received[Len(received)].type # "start"
    /\ received[Len(received) - 1].type # "start"

C7_FlushErrorSurfaced ==
    (pc = "done" /\ flushErr) => ret.kind = "WriteError"

(* The sequence a scan is to emit: per file, in order, the ids of the        *)
(* definitions of the kind that the basket matches.                          *)
OldPolicies == { <<"o", "l", "d">>, <<" ", "O", "l", "D", "\t">> }

RECURSIVE Flatten(_)
Flatten(ss) == IF ss = <<>> THEN <<>> ELSE Head(ss) \o Flatten(Tail(ss))

IdsOf(defs) == [i \in 1..Len(defs) |-> defs[i].id]

Selected(pol, tree) ==
    SelectSeq(tree, LAMBDA d :
        /\ d.kind = (IF pol \in OldPolicies THEN "control" ELSE "test")
        /\ Match(basket, d.id, d.tags))

Expected ==
    Flatten([i \in 1..Len(files) |-> IdsOf(Selected(policy, files[i]))])

(* C8: with a non-empty explicit list the identifiers sent are those of the  *)
(* list, in order and once per occurrence, the channel is closed after the   *)
(* last one, no file is parsed and the basket is never asked.                *)
C8_ExplicitList ==
    Len(ids) > 0 =>
        /\ IsPrefix(emitted, ids)
        /\ gpc = "closed" => emitted = ids
        /\ parsed = <<>>
        /\ matchCalls = 0

C8_Witness ==
    /\ ids = <<"m1.A", "m1.A">>
    /\ files # <<>>
    /\ policy = <<"o", "l", "d">>
    /\ ~basket.all
    /\ gpc = "closed"
    /\ emitted = ids

(* C9: without explicit identifiers, what is sent is always a prefix of the  *)
(* matching definitions of the selected kind (control parts when the policy  *)
(* is "old" in any case and with surrounding blanks, test cases otherwise),  *)
(* in file order then definition order, and all of them once the channel is  *)
(* closed without a cancellation.                                            *)
C9_ScanEmitsMatches ==
    Len(ids) = 0 =>
        /\ IsPrefix(emitted, Expected)
        /\ (gpc = "closed" /\ ~ctxDone) => emitted = Expected

C9_Witness ==
    /\ ids = <<>>
    /\ policy = <<" ", "O", "l", "D", "\t">>
    /\ files = <<File2, File1>>
    /\ basket.tags = {"stable"}
    /\ gpc = "closed"
    /\ ~ctxDone
    /\ emitted = <<"m2.control">>

(* C10, as claimed: once the context is done and the consumer has stopped    *)
(* receiving, no producing goroutine stays blocked on a send: it is closed   *)
(* or can still take a step.                                                 *)
JobSendStuck ==
    /\ jpc = "send"
    /\ ~JobChanHasRoom(jobs, MaxWorkers)
    /\ ~consuming

IdSendStuck ==
    /\ gpc = "ids"
    /\ gdef <= Len(ids)
    /\ JobSendStuck

C10_StopsPromptly ==
    (ctxDone /\ ~consuming) => ~JobSendStuck /\ ~IdSendStuck

(* C11: the forced exit happens only after a second interrupt: whenever  *)
(* the process has ended through os.Exit(2), at least two interrupts had *)
(* been sent to it.                                                      *)
C11_TwoStageShutdown == exitStatus = "forced" => sigSent >= 2

(* The events the runner has emitted so far, in order. *)
Emitted == received \o ressults

(* The jobs that have emitted Start but not yet their terminal event. *)
Unfinished ==
    {Emitted[i].job : i \in {k \in 1..Len(Emitted) : Emitted[k].type = "start"}}
      \ {Emitted[i].job : i \in {k \in 1..Len(Emitted) : Emitted[k].type # "start"}}

(* C12: at every instant the jobs that have emitted Start but not yet   *)
(* their terminal event are the jobs Runner.Jobs() reports, they are at *)
(* most MaxWorkers, and a liveness report never lists more than         *)
(* MaxWorkers jobs.                                                     *)
C12_ActiveBounded ==
    /\ Unfinished = active
    /\ Cardinality(Unfinished) <= MaxWorkers
    /\ Len(SelectSeq(out, LAMBDA l : l.kind = "active")) <= MaxWorkers

(* The pool is full, one more job waits, and the ticker has reported *)
(* the full pool.                                                    *)
C12_Witness ==
    /\ MaxWorkers = 2
    /\ Cardinality(active) = MaxWorkers
    /\ jobs # <<>>
    /\ Len(SelectSeq(out, LAMBDA l : l.kind = "active")) = MaxWorkers

(* The jobs a worker has taken from the job channel. *)
Dispatched ==
    {NewJob(JobName(n), n) : n \in 1..nextJob} \ {jobs[i] : i \in 1..Len(jobs)}

(* C13: the result channel is closed only when no job is running and no *)
(* job can be admitted any more (the job channel is closed and empty, or *)
(* the context is done); and when the loop has ended because the channel *)
(* was closed, the ledger has exactly one entry for every dispatched job *)
(* and none for any other job.                                           *)
C13_ClosedAfterDrain ==
    /\ resClosed =>
          /\ active = {}
          /\ (jobs = <<>> /\ jobsClosed) \/ RunCtxDone
    /\ exitBy = "closed" =>
          LET term == Terminals(received)
          IN /\ Len(Runs) = Len(term)
             /\ \A i \in 1..Len(term) : Runs[i].Name = term[i].job.Name
             /\ \A j \in Dispatched :
                   Cardinality({i \in 1..Len(term) : term[i].job = j}) = 1
             /\ \A i \in 1..Len(term) : term[i].job \in Dispatched

(* The loop ended by closure after a cancellation: two jobs ran and are *)
(* in the ledger, a third was generated but never dispatched.           *)
C13_Witness ==
    /\ exitBy = "closed"
    /\ Len(Runs) = 2
    /\ Cardinality(Dispatched) = 2
    /\ jobs # <<>>

(* The lines a reader finds in a text: what stands between the newlines. *)
RECURSIVE SplitLines(_, _)
SplitLines(text, cur) ==
    IF text = <<>> THEN (IF cur = <<>> THEN <<>> ELSE <<cur>>)
    ELSE IF Head(text) = "\n" THEN <<cur>> \o SplitLines(Tail(text), <<>>)
    ELSE SplitLines(Tail(text), Append(cur, Head(text)))

(* C14 as stated: whenever SCT_K3_SERVER is set to a value other than    *)
(* "ntt" and other than "off", the delegate is the backend that is run. *)
C14_Original ==
    (backend # "undecided" /\ env.ok /\ env.s # <<"n", "t", "t">>
       /\ env.s # <<"o", "f", "f">>)
      => backend = "k3s"

(* C14, amended: the delegate is selected exactly when SCT_K3_SERVER is  *)
(* set to a value other than "ntt" and other than "off" in any letter    *)
(* case; then nttRun is never entered (the stale artifact stays, the     *)
(* ledger stays empty, no job is run), and once k3sRun has returned, the *)
(* delegate's input held the generated identifiers in generation order,  *)
(* one per line, and the run's result is the delegate's.                 *)
C14_DelegateBypass ==
    /\ backend # "undecided" =>
          (backend = "k3s" <=>
             (env.ok /\ env.s # <<"n", "t", "t">>
                /\ ToLower(env.s) # <<"o", "f", "f">>))
    /\ backend = "k3s" =>
          /\ pc = "start"
          /\ artifact = StaleFile
          /\ Runs = <<>>
          /\ received = <<>>
          /\ active = {}
    /\ (backend = "k3s" /\ ret # Pending) =>
          /\ SplitLines(k3sStdin, <<>>) = [i \in 1..Len(emitted) |-> <<emitted[i]>>]
          /\ ret \in DelegateResults

(* The delegate has run on two or more identifiers of a scan, selected by *)
(* a value that differs from "ntt" only in letter case.                   *)
C14_Witness ==
    /\ backend = "k3s"
    /\ env.s = <<"N", "T", "T">>
    /\ ret # Pending
    /\ ids = <<>>
    /\ Len(emitted) >= 2
    /\ Len(k3sStdin) = 2 * Len(emitted) - 1

(* C15: the ledger is append-only and ordered by completion: in every  *)
(* step the old ledger is a prefix of the new one, and the ledger grows *)
(* only by one entry, for the terminal result received in that step.    *)
C15_AppendOnly ==
    [][ /\ IsPrefix(Runs, Runs')
        /\ Runs' # Runs =>
              /\ ressults # <<>>
              /\ Head(ressults).type # "start"
              /\ Len(Runs') = Len(Runs) + 1
              /\ Runs'[Len(Runs')].Name = Head(ressults).job.Name
              /\ Runs'[Len(Runs')].End = Head(ressults).time
              /\ received' = Append(received, Head(ressults)) ]_vars

(* The second job submitted finished first and stands first in the ledger. *)
C15_Witness ==
    /\ Len(Runs) = 2
    /\ Len(Terminals(received)) = 2
    /\ Terminals(received)[1].job.ID = 2
    /\ Terminals(received)[2].job.ID = 1
    /\ Runs[1].Name = JobName(2)
    /\ Runs[2].Name = JobName(1)

(* C16: handling a tick is purely observational: a step that takes the *)
(* tick out of ticker.C without receiving a result leaves the ledger,  *)
(* the error counter, the begin timestamps, the status of the loop, its *)
(* return value, the artifact and the pending results as they were.     *)
C16_TickObserves ==
    [][ (tickPending /\ ~tickPending' /\ received' = received) =>
          UNCHANGED <<Runs, errorCount, stamps, pc, exitBy, cancelled, ret,
                      artifact, ressults, resClosed, active, jobs>> ]_vars

(* A tick has reported a running job while a result was waiting and the *)
(* ledger already had an entry; the loop is still running.              *)
C16_Witness ==
    /\ pc = "loop"
    /\ ~tickPending
    /\ out # <<>>
    /\ \A i \in 1..Len(out) : out[i].kind = "active"
    /\ ressults # <<>>
    /\ Len(Runs) >= 1

(* C17: every Error event received increments the error counter and is *)
(* recorded with verdict "fatal" and its cause as reason; every Stop    *)
(* event is recorded with its own verdict, or "none" when that is       *)
(* empty, and with an empty reason.                                     *)
C17_ErrorsAndStops ==
    /\ [](LET term == Terminals(received)
          IN /\ Len(Runs) = Len(term)
             /\ \A i \in 1..Len(term) :
                   IF term[i].type = "error"
                   THEN /\ Runs[i].Verdict = "fatal"
                        /\ Runs[i].Reason = term[i].cause
                   ELSE /\ Runs[i].Verdict =
                             (IF term[i].verdict = "" THEN "none" ELSE term[i].verdict)
                        /\ Runs[i].Reason = "")
    /\ [][(received' # received /\ Head(ressults).type = "error") =>
             errorCount' = errorCount + 1]_vars

(* An Error event and a Stop event with an empty verdict are in the ledger. *)
C17_Witness ==
    /\ Len(Runs) = 2
    /\ received[1].type = "error"
    /\ received[1].cause = "crash"
    /\ received[2].type = "stop"
    /\ received[2].verdict = ""
    /\ errorCount = 2

(* The lines of the last step that render a result (the notice of the *)
(* circuit breaker is not one).                                       *)
RenderedLines == SelectSeq(out, LAMBDA l : l.kind # "notice")

(* C20 as stated: in every output mode the step that received a result *)
(* rendered exactly one line if the result is terminal; for a Start    *)
(* event it rendered none, except one in text mode.                    *)
C20_Original ==
    received # <<>> =>
      LET ev == received[Len(received)]
      IN Len(RenderedLines) =
           (IF ev.type # "start" THEN 1 ELSE IF format = "text" THEN 1 ELSE 0)

(* C20, amended: in the plain, json and text modes the step that      *)
(* received a terminal result rendered exactly one line for it, in    *)
(* quiet mode none; for a Start event it rendered none, except the    *)
(* one run announcement in text mode.                                 *)
C20_RenderCalls ==
    received # <<>> =>
      LET ev == received[Len(received)]
      IN /\ Len(RenderedLines) =
              (IF format = "quiet" THEN 0
               ELSE IF ev.type # "start" THEN 1
               ELSE IF format = "text" THEN 1 ELSE 0)
         /\ \A i \in 1..Len(RenderedLines) :
               /\ RenderedLines[i].name = ev.job.Name
               /\ (RenderedLines[i].kind = "run") = (ev.type = "start")

(* In plain mode a Start was received without a line, then its Stop with *)
(* one line.                                                             *)
C20_Witness ==
    /\ format = "plain"
    /\ Len(received) = 2
    /\ received[1].type = "start"
    /\ received[2].type = "stop"
    /\ Len(RenderedLines) = 1
    /\ RenderedLines[1].kind = "plain"

(* The identifiers of a scan in which a file whose parse failed *)
(* contributes none.                                            *)
ExpectedOfParsed ==
    Flatten([i \in 1..Len(files) |->
               IF ferr[i] = "ok" THEN IdsOf(Selected(policy, files[i])) ELSE <<>>])

(* C18: a file whose parse fails contributes no identifier and the scan *)
(* goes on: every file is parsed, and a scan that was not cancelled     *)
(* ends having emitted exactly the identifiers of the files that parsed *)
(* well.                                                                *)
C18_FailedFileSkipped ==
    (gpc = "closed" /\ ~ctxDone) =>
        /\ parsed = [i \in 1..Len(files) |-> i]
        /\ emitted = ExpectedOfParsed

(* The callers whose parser call is in progress. *)
Parsing == {c \in DOMAIN ppc : ppc[c] = "parsing"}

(* C19: at every instant at most NumCPU parser calls are in progress,   *)
(* and the permits held are exactly those of the parser calls in        *)
(* progress: a parse that ended, well or with an error, has given its   *)
(* permit back, and a call whose file could not be read never held one. *)
C19_PermitsBounded ==
    /\ Cardinality(Parsing) <= NumCPU
    /\ parseLimit = Cardinality(Parsing)

(* With one permit: a parse failed and gave its permit back, another  *)
(* parse holds it now and a third caller waits for it.                *)
C19_Witness ==
    /\ NumCPU = 1
    /\ parseLimit = 1
    /\ \E a, b, c \in DOMAIN ppc :
         /\ ppc[a] = "syntax"
         /\ ppc[b] = "parsing"
         /\ ppc[c] = "acquire"

(* The jobs sent on the job channel so far, in order. *)
Delivered == consumed \o jobs

(* C21: the k-th job sent on the job channel is a job of its own for the *)
(* k-th identifier emitted; every emitted identifier has its job sent,   *)
(* but for the one the job goroutine is just sending; and the job        *)
(* channel is closed only after the identifier channel was closed and    *)
(* the job of every identifier was sent.                                 *)
C21_OneJobPerId ==
    /\ \A k \in 1..Len(Delivered) :
          /\ k <= Len(emitted)
          /\ Delivered[k].Name = emitted[k]
          /\ \A l \in 1..Len(Delivered) : Delivered[l] = Delivered[k] => l = k
    /\ Len(emitted) - Len(Delivered) = (IF jpc = "send" THEN 1 ELSE 0)
    /\ jobsClosed => (gpc = "closed" /\ Len(Delivered) = Len(emitted))

(* The same identifier was requested twice: two jobs were delivered for *)
(* it and the job channel is closed.                                    *)
C21_Witness ==
    /\ ids = <<"m1.A", "m1.A">>
    /\ jobsClosed
    /\ Len(consumed) = 2
    /\ consumed[1].Name = "m1.A"
    /\ consumed[2].Name = "m1.A"
    /\ consumed[1] # consumed[2]

(* C22: every ledger entry has begin <= end. *)
C22_BeginBeforeEnd ==
    \A i \in 1..Len(Runs) : Runs[i].Begin <= Runs[i].End

(* The directories Discover collects, as a set: the walked directories    *)
(* that hold a manifest, and the roots named by a readable suite index of *)
(* a walked directory (its own or one in a build directory) that hold a   *)
(* manifest.                                                              *)
SuiteDirs ==
    LET n == Len(dfs.walk)
        indexes == {dfs.own[k] : k \in 1..n} \cup
                   UNION {{dfs.globbed[k][g] : g \in 1..Len(dfs.globbed[k])} :
                          k \in 1..n}
        roots == UNION {{ix.suites[r] : r \in 1..Len(ix.suites)} :
                        ix \in {x \in indexes : ~x.err}}
    IN  {dfs.walk[k] : k \in {j \in 1..n : dfs.walk[j] \in dfs.manifests}}
          \cup {v \in roots : v # "" /\ v \in dfs.manifests}

(* The position at which v was first collected. *)
FirstCollected(v) ==
    CHOOSE i \in 1..Len(dlist) :
        dlist[i] = v /\ \A j \in 1..(i - 1) : dlist[j] # v

(* C23: the list Discover returns has no duplicate entries, holds exactly *)
(* the distinct suite directories collected on the way up (directories    *)
(* with a manifest, and suite-index roots that have a manifest), and      *)
(* keeps them in the order in which each was first collected.             *)
C23_DistinctInOrder ==
    dpc = "done" =>
        /\ \A i, j \in 1..Len(dresult) : dresult[i] = dresult[j] => i = j
        /\ {dresult[i] : i \in 1..Len(dresult)} = SuiteDirs
        /\ {dlist[i] : i \in 1..Len(dlist)} = SuiteDirs
        /\ \A i, j \in 1..Len(dresult) :
              i < j => FirstCollected(dresult[i]) < FirstCollected(dresult[j])

(* A walk of two directories that collected a directory more than once,  *)
(* left out an index root that has no manifest, and returned the rest in *)
(* the order of collection.                                              *)
C23_Witness ==
    /\ dpc = "done"
    /\ dfs.walk = <<"/a", "/">>
    /\ dfs.manifests = {"/a", "/"}
    /\ dfs.own[1] = Index(FALSE, <<"/x", "/a">>)
    /\ Len(dlist) > Len(dresult)
    /\ dresult = <<"/a", "/">>

========================================================================
